---- MODULE Spec2Model ----
(***************************************************************************)
(* Model of scripts/post_shop.py: the Fortnite shop fetch / normalise /    *)
(* group / export / post script.                                           *)
(*                                                                         *)
(* Python values are modelled as tagged tuples so that None, strings,      *)
(* integers, dicts and attribute-carrying objects can live in one field:   *)
(*   <<"none">>, <<"str", s>>, <<"int", n>>,                               *)
(*   <<"dict", pairs>>  (pairs: insertion-ordered <<key, value>> tuples),  *)
(*   <<"obj", attrs, text>> (attrs: <<name, value>> tuples, text: str(o)), *)
(*   <<"list", seq>>, <<"date", y, m, d>> (a datetime at midnight UTC).    *)
(* Python strings are TLA+ strings; SubSeq, Len, Tail and \o act on them.  *)
(***************************************************************************)
EXTENDS Integers, Sequences, FiniteSets, TLC

VARIABLES
  pc,             \* position of the script
  items,          \* flat list accumulated by fetch_shop_items / module-level items
  groups,         \* dict id -> group record, kept as its insertion-ordered list of values
  shop_date_str,  \* source date
  shop_date,      \* shop.date of the typed client's response
  seenA,          \* positions in EntriesA of the entries source A's loop has iterated
  seenB,          \* positions in EntriesB of the entries source B's loops have iterated
  itemSrc,        \* for each element of items, the source whose loop appended it
  groupSrc,       \* for each element of groups, the source whose loop created it
  path,           \* <<how the source A attempt ended, how the source B attempt ended>>
  payload,        \* the payload dict built at module level
  out_file,       \* content of shop.json
  env,            \* presence of the optional posting credentials
  fb,             \* outcome of the Facebook block
  tw,             \* outcome of the Twitter block
  arg,            \* argument of the helper under check
  ret             \* its result

vars == <<pc, items, groups, shop_date_str, shop_date, seenA, seenB, itemSrc, groupSrc,
          path, payload, out_file, env, fb, tw, arg, ret>>

(***************************************************************************)
(* Python values                                                           *)
(***************************************************************************)
None == <<"none">>

S(s) == <<"str", s>>

I(n) == <<"int", n>>

Dict(pairs) == <<"dict", pairs>>

Obj(attrs, text) == <<"obj", attrs, text>>

List(seq) == <<"list", seq>>

Date(y, m, d) == <<"date", y, m, d>>

IsNone(v) == v[1] = "none"

\* bool(v)
Truthy(v) ==
  CASE v[1] = "none" -> FALSE
    [] v[1] = "str"  -> v[2] # ""
    [] v[1] = "int"  -> v[2] # 0
    [] v[1] = "dict" -> Len(v[2]) > 0
    [] v[1] = "list" -> Len(v[2]) > 0
    [] OTHER         -> TRUE

\* a or b
Or(a, b) == IF Truthy(a) THEN a ELSE b

Lookup(pairs, k) ==
  IF \E i \in 1..Len(pairs) : pairs[i][1] = k
  THEN pairs[CHOOSE i \in 1..Len(pairs) : pairs[i][1] = k][2]
  ELSE None

\* d.get(k) on a dict
DictGet(d, k) == IF d[1] = "dict" THEN Lookup(d[2], k) ELSE None

\* hasattr(v, a): only objects carry the attributes the script asks for
HasAttr(v, a) == v[1] = "obj" /\ \E i \in 1..Len(v[2]) : v[2][i][1] = a

\* getattr(v, a, None)
GetAttr(v, a) == IF HasAttr(v, a) THEN Lookup(v[2], a) ELSE None

(***************************************************************************)
(* Python string methods                                                   *)
(***************************************************************************)
UPPERCASE == "ABCDEFGHIJKLMNOPQRSTUVWXYZ"

LOWERCASE == "abcdefghijklmnopqrstuvwxyz"

DIGITS == "0123456789"

Char(s, i) == SubSeq(s, i, i)

LowerChar(c) ==
  IF \E i \in 1..26 : Char(UPPERCASE, i) = c
  THEN Char(LOWERCASE, CHOOSE i \in 1..26 : Char(UPPERCASE, i) = c)
  ELSE c

UpperChar(c) ==
  IF \E i \in 1..26 : Char(LOWERCASE, i) = c
  THEN Char(UPPERCASE, CHOOSE i \in 1..26 : Char(LOWERCASE, i) = c)
  ELSE c

RECURSIVE LowerStr(_)
\* s.lower()
LowerStr(s) == IF s = "" THEN "" ELSE LowerChar(Char(s, 1)) \o LowerStr(Tail(s))

RECURSIVE UpperStr(_)
\* s.upper()
UpperStr(s) == IF s = "" THEN "" ELSE UpperChar(Char(s, 1)) \o UpperStr(Tail(s))

\* s.startswith(p)
StartsWith(s, p) == Len(s) >= Len(p) /\ SubSeq(s, 1, Len(p)) = p

\* k in s
Contains(s, k) == \E i \in 1..(Len(s) - Len(k) + 1) : SubSeq(s, i, i + Len(k) - 1) = k

RECURSIVE LStrip(_, _)
LStrip(s, chars) ==
  IF s # "" /\ Contains(chars, Char(s, 1)) THEN LStrip(Tail(s), chars) ELSE s

RECURSIVE RStrip(_, _)
RStrip(s, chars) ==
  IF s # "" /\ Contains(chars, Char(s, Len(s)))
  THEN RStrip(SubSeq(s, 1, Len(s) - 1), chars) ELSE s

\* s.strip(chars); StripWs is s.strip()
Strip(s, chars) == RStrip(LStrip(s, chars), chars)

StripWs(s) == Strip(s, " \t\n\r")

\* s.split(sep)[-1] for a one-character sep
SplitLast(s, sep) ==
  IF Contains(s, sep)
  THEN LET i == CHOOSE j \in 1..Len(s) :
                  Char(s, j) = sep /\ \A k \in (j + 1)..Len(s) : Char(s, k) # sep
       IN SubSeq(s, i + 1, Len(s))
  ELSE s

\* s.split(sep, 1)[1] for a one-character sep that occurs in s
SplitFirstRest(s, sep) ==
  LET i == CHOOSE j \in 1..Len(s) :
             Char(s, j) = sep /\ \A k \in 1..(j - 1) : Char(s, k) # sep
  IN SubSeq(s, i + 1, Len(s))

RECURSIVE NatStr(_)
NatStr(n) == IF n < 10 THEN Char(DIGITS, n + 1) ELSE NatStr(n \div 10) \o Char(DIGITS, (n % 10) + 1)

\* n as decimal digits, zero-padded to width w
Pad(n, w) == IF w = 2 /\ n < 10 THEN "0" \o NatStr(n) ELSE NatStr(n)

RECURSIVE PyRepr(_)
RECURSIVE ReprPairs(_)
RECURSIVE ReprList(_)
\* repr(v), as used by str() of a dict
PyRepr(v) ==
  CASE v[1] = "none" -> "None"
    [] v[1] = "str"  -> "'" \o v[2] \o "'"
    [] v[1] = "int"  -> IF v[2] < 0 THEN "-" \o NatStr(0 - v[2]) ELSE NatStr(v[2])
    [] v[1] = "dict" -> "{" \o ReprPairs(v[2]) \o "}"
    [] v[1] = "list" -> "[" \o ReprList(v[2]) \o "]"
    [] v[1] = "date" -> NatStr(v[2]) \o "-" \o Pad(v[3], 2) \o "-" \o Pad(v[4], 2) \o " 00:00:00+00:00"
    [] OTHER         -> v[3]

ReprList(seq) ==
  IF Len(seq) = 0 THEN ""
  ELSE PyRepr(seq[1]) \o (IF Len(seq) > 1 THEN ", " \o ReprList(Tail(seq)) ELSE "")

ReprPairs(pairs) ==
  IF Len(pairs) = 0 THEN ""
  ELSE "'" \o pairs[1][1] \o "': " \o PyRepr(pairs[1][2])
       \o (IF Len(pairs) > 1 THEN ", " \o ReprPairs(Tail(pairs)) ELSE "")

\* str(v)
PyStr(v) == IF v[1] = "str" THEN v[2] ELSE PyRepr(v)

\* the printable ASCII characters in code point order: 32..95 and 97..126
CODEPOINTS_LOW == " !\"#$%&'()*+,-./0123456789:;<=>?@ABCDEFGHIJKLMNOPQRSTUVWXYZ[\\]^_"

CODEPOINTS_HIGH == "abcdefghijklmnopqrstuvwxyz{|}~"

\* ord(c); characters outside the table sort after it
Ord(c) ==
  IF \E i \in 1..Len(CODEPOINTS_LOW) : Char(CODEPOINTS_LOW, i) = c
  THEN 31 + (CHOOSE i \in 1..Len(CODEPOINTS_LOW) : Char(CODEPOINTS_LOW, i) = c)
  ELSE IF \E i \in 1..Len(CODEPOINTS_HIGH) : Char(CODEPOINTS_HIGH, i) = c
  THEN 96 + (CHOOSE i \in 1..Len(CODEPOINTS_HIGH) : Char(CODEPOINTS_HIGH, i) = c)
  ELSE 255

RECURSIVE StrLess(_, _)
\* a < b on str
StrLess(a, b) ==
  IF b = "" THEN FALSE
  ELSE IF a = "" THEN TRUE
  ELSE IF Char(a, 1) = Char(b, 1) THEN StrLess(Tail(a), Tail(b))
  ELSE Ord(Char(a, 1)) < Ord(Char(b, 1))

RECURSIVE InsertSorted(_, _)
InsertSorted(x, seq) ==
  IF Len(seq) = 0 THEN <<x>>
  ELSE IF StrLess(x, seq[1]) THEN <<x>> \o seq
  ELSE <<seq[1]>> \o InsertSorted(x, Tail(seq))

RECURSIVE Sorted(_)
\* sorted(seq) for a list of str
Sorted(seq) == IF Len(seq) = 0 THEN <<>> ELSE InsertSorted(seq[1], Sorted(Tail(seq)))

RECURSIVE Join(_, _)
\* sep.join(seq)
Join(sep, seq) ==
  IF Len(seq) = 0 THEN ""
  ELSE IF Len(seq) = 1 THEN seq[1]
  ELSE seq[1] \o sep \o Join(sep, Tail(seq))

\* hashlib.sha1(str(value_hint)).hexdigest()[:16]: a deterministic digest of the
\* text, taken to be collision-free on the texts the model builds
safe_id(value_hint) == "sha1(" \o value_hint \o ")"

\* the key built from the identifiers in listed order, without sorted()
group_key_Unsorted(ids_for_key, entry_price, expire_txt) ==
  Join("|", ids_for_key) \o "|" \o PyStr(entry_price) \o "|" \o PyStr(expire_txt)

\* the text hashed when an entry has no offer id (lines 334 and 432)
group_key(ids_for_key, entry_price, expire_txt) ==
  Join("|", Sorted(ids_for_key)) \o "|" \o PyStr(entry_price) \o "|" \o PyStr(expire_txt)

\* group_id = offer_id or safe_id(...)
group_id_of(offer_id, ids_for_key, entry_price, expire_txt) ==
  Or(offer_id, S(safe_id(group_key(ids_for_key, entry_price, expire_txt))))

(***************************************************************************)
(* Helpers of the script                                                   *)
(***************************************************************************)
RARITIES == <<"common", "uncommon", "rare", "epic", "legendary", "mythic">>

RARITY_ATTRS == <<"value", "api_value", "apiValue", "name">>

\* the scalar text normalize_rarity classifies (lines 20-28)
rarity_text(r) ==
  LET hits == {i \in 1..Len(RARITY_ATTRS) : Truthy(GetAttr(r, RARITY_ATTRS[i]))}
      s    == IF hits # {}
              THEN LowerStr(PyStr(GetAttr(r, RARITY_ATTRS[CHOOSE i \in hits : \A j \in hits : i <= j])))
              ELSE LowerStr(PyStr(r))
  IN IF Contains(s, ".") THEN SplitLast(s, ".") ELSE s

normalize_rarity(r) ==
  IF IsNone(r) THEN "common"
  ELSE LET s    == rarity_text(r)
           hits == {i \in 1..Len(RARITIES) : Contains(s, RARITIES[i])}
       IN IF hits # {}
          THEN RARITIES[CHOOSE i \in hits : \A j \in hits : i <= j]
          ELSE s

\* the dict / attribute unwrapping of clean_url (lines 37-40)
url_unwrap(u) ==
  LET d == IF u[1] = "dict"
           THEN Or(Or(DictGet(u, "url"), DictGet(u, "icon")),
                   IF Len(u[2]) > 0 THEN u[2][1][2] ELSE None)
           ELSE u
  IN IF HasAttr(d, "url") THEN GetAttr(d, "url") ELSE d

QUOTE1 == "'"

QUOTE2 == "\""

url_unquote(s) == Strip(Strip(StripWs(s), QUOTE1), QUOTE2)

\* clean_url without its final scheme test
url_scheme_check_AnyScheme(u) == S(u)

\* the final scheme test of clean_url (lines 46-48)
url_scheme_check(u) ==
  IF ~(StartsWith(u, "http://") \/ StartsWith(u, "https://")) THEN None ELSE S(u)

clean_url(u) ==
  IF ~Truthy(u) THEN None
  ELSE LET u1 == url_unquote(PyStr(url_unwrap(u)))
           u2 == IF StartsWith(LowerStr(u1), "asset url=") \/ StartsWith(LowerStr(u1), "asset_url=")
                 THEN url_unquote(SplitFirstRest(u1, "="))
                 ELSE u1
           u3 == IF StartsWith(u2, "//") THEN "https:" \o u2 ELSE u2
       IN url_scheme_check(u3)

RECURSIVE Replace(_, _, _)
\* s.replace(old, new) for a non-empty old
Replace(s, old, new) ==
  IF s = "" THEN ""
  ELSE IF StartsWith(s, old) THEN new \o Replace(SubSeq(s, Len(old) + 1, Len(s)), old, new)
  ELSE Char(s, 1) \o Replace(Tail(s), old, new)

TYPE_MAP ==
  << <<"outfit", S("traje")>>, <<"emote", S("gesto")>>, <<"emoji", S("gesto")>>,
     <<"backpack", S("mochila")>>, <<"backbling", S("mochila")>>, <<"pickaxe", S("pico")>>,
     <<"glider", S("ala_delta")>>, <<"wrap", S("envoltorio")>>, <<"pet", S("companero")>>,
     <<"petcarrier", S("companero")>>, <<"companion", S("companero")>>, <<"music", S("pista")>>,
     <<"musicpack", S("pista")>>, <<"jam", S("pista")>>, <<"jamtrack", S("pista")>>,
     <<"festival_track", S("pista")>>, <<"loading_screen", S("pantalla_carga")>> >>

map_api_type(v) ==
  IF ~Truthy(v) THEN None
  ELSE LET t0 == Replace(LowerStr(PyStr(v)), "cosmetictype.", "")
           t1 == Replace(Replace(t0, "athenacharacter", "outfit"), "athenabackpack", "backpack")
           t2 == Replace(Replace(t1, "weaponwrap", "wrap"), "musicpack", "music")
           t3 == Replace(t2, "loading", "loading_screen")
       IN Or(Lookup(TYPE_MAP, t3), Lookup(TYPE_MAP, SplitLast(t3, ".")))

\* the keyword groups of infer_type_by_name, in the order they are tested
TYPE_KEYWORDS ==
  << <<"companero", {"compañero", "companero", "companion", "buddy", "pet"}>>,
     <<"pista",     {"pista", "jam", "track", "music", "música", "musica"}>>,
     <<"gesto",     {"gesto", "emote", "baile", "dance"}>>,
     <<"pico",      {"pico", "hacha", "pickaxe"}>>,
     <<"ala_delta", {"ala delta", "ala", "planeador", "glider"}>>,
     <<"envoltorio", {"envoltorio", "wrap", "camo"}>>,
     <<"mochila",   {"mochila", "back bling", "back", "accesorio"}>> >>

\* infer_type_by_name with the keyword groups tested in the opposite order
infer_type_by_name_LastGroup(name) ==
  LET n    == IF Truthy(name) THEN LowerStr(PyStr(name)) ELSE ""
      hits == {i \in 1..Len(TYPE_KEYWORDS) : \E k \in TYPE_KEYWORDS[i][2] : Contains(n, k)}
  IN IF hits # {} THEN TYPE_KEYWORDS[CHOOSE i \in hits : \A j \in hits : i >= j][1] ELSE "traje"

infer_type_by_name(name) ==
  LET n    == IF Truthy(name) THEN LowerStr(PyStr(name)) ELSE ""
      hits == {i \in 1..Len(TYPE_KEYWORDS) : \E k \in TYPE_KEYWORDS[i][2] : Contains(n, k)}
  IN IF hits # {} THEN TYPE_KEYWORDS[CHOOSE i \in hits : \A j \in hits : i <= j][1] ELSE "traje"

from_series(obj) ==
  IF ~Truthy(obj) THEN None
  ELSE LET v == Or(GetAttr(obj, "value"), GetAttr(obj, "name"))
       IN IF Truthy(v) THEN S(PyStr(v))
          ELSE IF obj[1] = "dict" THEN Or(DictGet(obj, "value"), DictGet(obj, "name"))
          ELSE None

SECTION_NAMES ==
  << <<"featured", S("Featured")>>, <<"specialFeatured", S("Special Featured")>>,
     <<"specialDaily", S("Special Daily")>>, <<"daily", S("Daily")>>,
     <<"votes", S("Votes")>>, <<"voteWinners", S("Vote Winners")>> >>

human_section(key) ==
  IF ~Truthy(key) THEN None
  ELSE IF \E i \in 1..Len(SECTION_NAMES) : SECTION_NAMES[i][1] = key[2]
  THEN Lookup(SECTION_NAMES, key[2]) ELSE key

(***************************************************************************)
(* fetch_shop_items: per-entry extraction                                  *)
(***************************************************************************)
IsLeap(y) == (y % 4 = 0 /\ y % 100 # 0) \/ y % 400 = 0

DaysInMonth(y, m) ==
  IF m = 2 THEN (IF IsLeap(y) THEN 29 ELSE 28)
  ELSE IF m \in {4, 6, 9, 11} THEN 30 ELSE 31

\* (shop.date + timedelta(days=1)).date().strftime("%d/%m/%Y")
next_day_text(date) ==
  LET y == date[2]
      m == date[3]
      d == date[4]
      n == IF d < DaysInMonth(y, m) THEN <<y, m, d + 1>>
           ELSE IF m < 12 THEN <<y, m + 1, 1>> ELSE <<y + 1, 1, 1>>
  IN Pad(n[3], 2) \o "/" \o Pad(n[2], 2) \o "/" \o NatStr(n[1])

NEXT_ROTATION == "Próxima rotación"

FirstTruthy(o, names) ==
  LET hits == {i \in 1..Len(names) : Truthy(GetAttr(o, names[i]))}
  IN IF hits = {} THEN None ELSE GetAttr(o, names[CHOOSE i \in hits : \A j \in hits : i <= j])

entry_price_A(entry) ==
  LET p0 == FirstTruthy(entry, <<"final_price", "regular_price", "price">>)
      p1 == IF HasAttr(p0, "final") THEN GetAttr(p0, "final") ELSE p0
      p2 == IF HasAttr(p1, "total") THEN GetAttr(p1, "total") ELSE p1
  IN IF ~IsNone(p2) /\ p2[1] \notin {"int", "str"} THEN S(PyStr(p2)) ELSE p2

expire_txt_A(entry, date) ==
  LET raw_exp == FirstTruthy(entry, <<"expiry", "expires_at", "expiration",
                                      "offer_expires", "offer_ends", "end">>)
  IN IF Truthy(raw_exp) THEN S(PyStr(raw_exp))
     ELSE IF date[1] = "date" THEN S(next_day_text(date))
     ELSE S(NEXT_ROTATION)

section_A(entry) ==
  LET sec_obj == GetAttr(entry, "section")
  IN IF Truthy(sec_obj) THEN Or(GetAttr(sec_obj, "display_name"), GetAttr(sec_obj, "name"))
     ELSE None

group_name_A(entry) ==
  LET bundle == GetAttr(entry, "bundle")
  IN IF Truthy(bundle) /\ HasAttr(bundle, "name") THEN GetAttr(bundle, "name") ELSE None

offer_id_A(entry) == FirstTruthy(entry, <<"offer_id", "offerId", "id">>)

\* list(entry), else entry.items or entry.br_items or []
cosmetics_A(entry) ==
  IF HasAttr(entry, "__iter__") THEN GetAttr(entry, "__iter__")[2]
  ELSE LET c == Or(GetAttr(entry, "items"), GetAttr(entry, "br_items"))
       IN IF Truthy(c) THEN c[2] ELSE <<>>

item_id_A(itm) == Or(GetAttr(itm, "id"), GetAttr(itm, "templateId"))

icon_A(itm) == GetAttr(GetAttr(itm, "images"), "icon")

api_type_A(itm) ==
  LET t == GetAttr(itm, "type")
  IN IF Truthy(t) THEN map_api_type(Or(GetAttr(t, "value"), GetAttr(t, "name"))) ELSE None

tmp_item_A(itm) ==
  LET url  == clean_url(icon_A(itm))[2]
      name == Or(GetAttr(itm, "name"), S("Sin nombre"))
  IN [id          |-> Or(item_id_A(itm), S(safe_id(PyStr(name) \o url))),
      name        |-> name,
      img_url     |-> url,
      rarity      |-> normalize_rarity(GetAttr(itm, "rarity")),
      type        |-> Or(api_type_A(itm), S(infer_type_by_name(name)))[2],
      series      |-> from_series(GetAttr(itm, "series")),
      indiv_price |-> None]

entry_price_B(entry) ==
  Or(Or(DictGet(entry, "regularPrice"), DictGet(entry, "finalPrice")), DictGet(entry, "price"))

expire_txt_B(entry) ==
  Or(Or(DictGet(entry, "offerExpires"), DictGet(entry, "expiresAt")), S(NEXT_ROTATION))

group_name_B(entry) ==
  LET bundle == Or(DictGet(entry, "bundle"), Dict(<<>>))
      n      == Or(Or(DictGet(bundle, "name"), DictGet(entry, "category")), DictGet(entry, "devName"))
  IN IF Truthy(n) THEN n ELSE None

offer_id_B(entry) == Or(DictGet(entry, "offerId"), DictGet(entry, "id"))

cosmetics_B(entry) ==
  LET c == DictGet(entry, "items") IN IF Truthy(c) THEN c[2] ELSE <<>>

item_id_B(itm) == Or(Or(DictGet(itm, "id"), DictGet(itm, "templateId")), DictGet(itm, "name"))

icon_B(itm) == DictGet(Or(DictGet(itm, "images"), Dict(<<>>)), "icon")

api_type_B(itm) ==
  LET tobj == Or(DictGet(itm, "type"), Dict(<<>>))
  IN map_api_type(Or(DictGet(tobj, "value"), DictGet(tobj, "name")))

tmp_item_B(itm) ==
  LET url  == clean_url(icon_B(itm))[2]
      name == Or(DictGet(itm, "name"), S("Sin nombre"))
  IN [id          |-> Or(item_id_B(itm), S(safe_id(PyStr(name) \o url))),
      name        |-> name,
      img_url     |-> url,
      rarity      |-> normalize_rarity(DictGet(itm, "rarity")),
      type        |-> Or(api_type_B(itm), S(infer_type_by_name(name)))[2],
      series      |-> from_series(DictGet(itm, "series")),
      indiv_price |-> Or(Or(DictGet(itm, "finalPrice"), DictGet(itm, "regularPrice")),
                         DictGet(itm, "price"))]

item_id(src, itm) == IF src = "A" THEN item_id_A(itm) ELSE item_id_B(itm)

icon(src, itm) == IF src = "A" THEN icon_A(itm) ELSE icon_B(itm)

\* `if not url: continue`
survives(src, itm) == Truthy(clean_url(icon(src, itm)))

\* ids_for_key: str(itm_id) of every cosmetic with a truthy id, dropped ones included
ids_for_key(src, cosmetics) ==
  LET withId == SelectSeq(cosmetics, LAMBDA itm : Truthy(item_id(src, itm)))
  IN [i \in 1..Len(withId) |-> PyStr(item_id(src, withId[i]))]

\* tmp_items: one record per cosmetic whose icon cleans to a URL
tmp_items(src, cosmetics) ==
  LET kept == SelectSeq(cosmetics, LAMBDA itm : survives(src, itm))
  IN [i \in 1..Len(kept) |-> IF src = "A" THEN tmp_item_A(kept[i]) ELSE tmp_item_B(kept[i])]

\* the locals of one loop iteration, before the accumulators are touched
extract_A(entry, date) ==
  [entry_price |-> entry_price_A(entry),
   expire_txt  |-> expire_txt_A(entry, date),
   section     |-> section_A(entry),
   group_name  |-> group_name_A(entry),
   offer_id    |-> offer_id_A(entry),
   ids_for_key |-> ids_for_key("A", cosmetics_A(entry)),
   tmp_items   |-> tmp_items("A", cosmetics_A(entry))]

extract_B(key, entry) ==
  [entry_price |-> entry_price_B(entry),
   expire_txt  |-> expire_txt_B(entry),
   section     |-> human_section(S(key)),
   group_name  |-> group_name_B(entry),
   offer_id    |-> offer_id_B(entry),
   ids_for_key |-> ids_for_key("B", cosmetics_B(entry)),
   tmp_items   |-> tmp_items("B", cosmetics_B(entry))]

group_id(x) == group_id_of(x.offer_id, x.ids_for_key, x.entry_price, x.expire_txt)

(***************************************************************************)
(* fetch_shop_items: group assignment and the two accumulators             *)
(***************************************************************************)
new_group(x) ==
  [id |-> group_id(x), name |-> x.group_name, price |-> x.entry_price,
   expires |-> x.expire_txt, items |-> <<>>]

group_item(ti) ==
  [id |-> ti.id, name |-> ti.name, image |-> ti.img_url, rarity |-> ti.rarity,
   type |-> ti.type, price |-> ti.indiv_price]

\* the "price" of a flat record: line 359 for source A, line 457 for source B
flat_price(src, ti, x) ==
  IF src = "A" THEN x.entry_price
  ELSE IF ~IsNone(ti.indiv_price) THEN ti.indiv_price ELSE x.entry_price

flat_item(src, ti, x) ==
  [id |-> ti.id, name |-> ti.name, img_url |-> ti.img_url, rarity |-> ti.rarity,
   price |-> flat_price(src, ti, x), expires |-> x.expire_txt, type |-> ti.type,
   section |-> x.section, group |-> x.group_name, groupId |-> group_id(x),
   groupPrice |-> x.entry_price, series |-> ti.series]

\* what one loop iteration is about to store: the group id, the record a new group
\* starts as, and the records appended to grp["items"] and to items
loop_body(src, x) ==
  [group_id    |-> group_id(x),
   new_group   |-> new_group(x),
   group_items |-> [i \in 1..Len(x.tmp_items) |-> group_item(x.tmp_items[i])],
   flat_items  |-> [i \in 1..Len(x.tmp_items) |-> flat_item(src, x.tmp_items[i], x)]]

\* position of groups.get(group_id) in the dict, 0 when absent
groups_get(grps, gid) ==
  IF \E i \in 1..Len(grps) : grps[i].id = gid
  THEN CHOOSE i \in 1..Len(grps) : grps[i].id = gid
  ELSE 0

\* groups[group_id] = grp = {...} on every entry, replacing a group already stored
groups_setdefault_Overwrite(grps, b) ==
  IF groups_get(grps, b.group_id) = 0 THEN Append(grps, b.new_group)
  ELSE [grps EXCEPT ![groups_get(grps, b.group_id)] = b.new_group]

\* grp = groups.get(group_id); if not grp: groups[group_id] = grp = {...}
groups_setdefault(grps, b) ==
  IF groups_get(grps, b.group_id) = 0 THEN Append(grps, b.new_group) ELSE grps

\* grp["items"].append(...) for every tmp item
groups_after(grps, b) ==
  LET g1 == groups_setdefault(grps, b)
      k  == groups_get(g1, b.group_id)
  IN [g1 EXCEPT ![k].items = @ \o b.group_items]

\* items.append(...) once after the loop over tmp_items, for its last record only
items_after_LastOnly(its, b) ==
  IF Len(b.flat_items) = 0 THEN its ELSE Append(its, b.flat_items[Len(b.flat_items)])

\* items.append(...) for every tmp item
items_after(its, b) == its \o b.flat_items

(***************************************************************************)
(* Upstream responses the environment can produce                          *)
(***************************************************************************)
\* most entries one source's loop iterates over
MaxEntries == 2

Asset(url) == Obj(<< <<"url", S(url)>> >>, "<Asset>")

Enum(value, text) == Obj(<< <<"value", S(value)>>, <<"name", S(UpperStr(value))>> >>, text)

CosmeticA(id, name, icn, rarity, type) ==
  Obj(<< <<"id", id>>, <<"name", name>>,
         <<"images", Obj(<< <<"icon", icn>> >>, "<Images>")>>,
         <<"rarity", rarity>>, <<"type", type>>, <<"series", None>> >>, "<Cosmetic>")

A_WILD == CosmeticA(S("c1"), S("Wild Card"), Asset("https://cdn.example.com/a.png"),
                    Enum("epic", "CosmeticRarity.EPIC"), Enum("outfit", "CosmeticType.OUTFIT"))

A_PICK == CosmeticA(S("c2"), S("Dance Pickaxe"), S("//cdn.example.com/b.png"),
                    S("EFortRarity::Legendary"), None)

A_BAD == CosmeticA(S("c3"), S("Broken"), S("asset_url='ftp://bad.example/x.png'"), S("rare"), None)

A_NOID == CosmeticA(None, S("Glider X"), S(" 'http://cdn.example.com/d.png' "), None, None)

EntryA(attrs, cosmetics) == Obj(attrs \o << <<"__iter__", List(cosmetics)>> >>, "<ShopEntry>")

EntriesA ==
  << EntryA(<< <<"offer_id", S("o1")>>, <<"final_price", I(1500)>>, <<"expiry", S("05/01/2026")>>,
               <<"bundle", Obj(<< <<"name", S("Pack")>> >>, "<Bundle>")>>,
               <<"section", Obj(<< <<"name", S("Featured")>> >>, "<Section>")>> >>,
            <<A_WILD, A_PICK>>),
     EntryA(<< <<"offer_id", S("o1")>>, <<"final_price", I(0)>>, <<"regular_price", I(800)>> >>,
            <<A_BAD, A_NOID>>),
     EntryA(<< <<"regular_price", I(1200)>> >>, <<A_BAD>>) >>

ShopDatesA == {None, Date(2026, 4, 30)}

CosmeticB(id, name, icn, rarity, price) ==
  Dict(<< <<"id", id>>, <<"name", name>>, <<"images", Dict(<< <<"icon", icn>> >>)>>,
          <<"rarity", rarity>>, <<"finalPrice", price>> >>)

B_WILD == CosmeticB(S("c1"), S("Wild Card"), S("https://cdn.example.com/a.png"),
                    Dict(<< <<"value", S("epic")>>, <<"displayValue", S("Epic")>> >>), I(1200))

B_PICK == CosmeticB(S("c2"), S("Dance Pickaxe"), S("//cdn.example.com/b.png"),
                    Dict(<< <<"value", S("rare")>> >>), None)

B_BAD == CosmeticB(S("c3"), S("Broken"), S("asset_url='ftp://bad.example/x.png'"), None, None)

B_NOID == CosmeticB(None, S("Glider X"), S("http://cdn.example.com/d.png"), S("Mythic"), I(0))

SECTION_KEYS == <<"featured", "specialFeatured", "specialDaily", "daily", "votes", "voteWinners">>

KeyIndex(key) == CHOOSE i \in 1..Len(SECTION_KEYS) : SECTION_KEYS[i] = key

\* <<section key, entry>> pairs of the raw response
EntriesB ==
  << <<"featured", Dict(<< <<"offerId", S("o1")>>, <<"regularPrice", I(2000)>>,
                           <<"bundle", Dict(<< <<"name", S("Bundle")>> >>)>>,
                           <<"items", List(<<B_WILD, B_PICK>>)>> >>)>>,
     <<"daily", Dict(<< <<"offerId", S("o1")>>, <<"finalPrice", I(500)>>,
                        <<"offerExpires", S("2026-05-01T00:00:00Z")>>,
                        <<"items", List(<<B_NOID, B_BAD>>)>> >>)>>,
     <<"daily", Dict(<< <<"regularPrice", I(1200)>>, <<"devName", S("dev")>>,
                        <<"items", List(<<B_BAD>>)>> >>)>> >>

ShopDatesB == {None, S("2026-04-30T00:00:00Z")}

\* the loop bodies of the catalogue entries, evaluated once
BodiesA == [d \in ShopDatesA |-> [i \in 1..Len(EntriesA) |-> loop_body("A", extract_A(EntriesA[i], d))]]

BodiesB == [i \in 1..Len(EntriesB) |-> loop_body("B", extract_B(EntriesB[i][1], EntriesB[i][2]))]

(***************************************************************************)
(* The script                                                              *)
(***************************************************************************)
Init ==
  /\ pc = "fetch_A"
  /\ items = <<>>
  /\ groups = <<>>
  /\ shop_date_str = None
  /\ shop_date = None
  /\ seenA = <<>>
  /\ seenB = <<>>
  /\ itemSrc = <<>>
  /\ groupSrc = <<>>
  /\ path = <<"none", "none">>
  /\ payload = None
  /\ out_file = None
  /\ env \in [fb : BOOLEAN, tw : BOOLEAN]
  /\ fb = "pending"
  /\ tw = "pending"
  /\ arg = None
  /\ ret = None

\* one iteration of either entry loop: lines 247-367 and 395-465
Accumulate(src, b) ==
  /\ groups' = groups_after(groups, b)
  /\ items' = items_after(items, b)
  /\ itemSrc' = itemSrc \o [i \in 1..Len(b.flat_items) |-> src]
  /\ groupSrc' = IF groups_get(groups, b.group_id) = 0 THEN Append(groupSrc, src) ELSE groupSrc

\* return items, groups, shop_date_str from the failure branches
ReturnAccumulated(how) ==
  /\ UNCHANGED <<items, groups, shop_date_str, itemSrc, groupSrc>>
  /\ path' = <<path[1], how>>
  /\ pc' = "fetched"

\* return [], {}, None
ReturnEmpty(how) ==
  /\ items' = <<>>
  /\ groups' = <<>>
  /\ shop_date_str' = None
  /\ itemSrc' = <<>>
  /\ groupSrc' = <<>>
  /\ path' = <<path[1], how>>
  /\ pc' = "fetched"

\* fn_client.fetch_shop() answers
FetchShopA ==
  /\ pc = "fetch_A"
  /\ \E d \in ShopDatesA :
       /\ shop_date' = d
       /\ shop_date_str' = IF Truthy(d) THEN S(PyStr(d)) ELSE None
  /\ pc' = "loop_A"
  /\ UNCHANGED <<items, groups, seenA, seenB, itemSrc, groupSrc, path, payload, out_file,
                 env, fb, tw, arg, ret>>

\* the client cannot be built or fetch_shop() raises
ClientRaises ==
  /\ pc = "fetch_A"
  /\ path' = <<"raised", "none">>
  /\ pc' = "fetch_B"
  /\ UNCHANGED <<items, groups, shop_date_str, shop_date, seenA, seenB, itemSrc, groupSrc,
                 payload, out_file, env, fb, tw, arg, ret>>

LoopEntryA ==
  /\ pc = "loop_A"
  /\ Len(seenA) < MaxEntries
  /\ \E i \in 1..Len(EntriesA) :
       /\ Accumulate("A", BodiesA[shop_date][i])
       /\ seenA' = Append(seenA, i)
  /\ UNCHANGED <<pc, shop_date_str, shop_date, seenB, path, payload, out_file, env, fb, tw,
                 arg, ret>>

\* an exception inside the with block: raised by an entry before line 334, or on exit
RaiseInA ==
  /\ pc = "loop_A"
  /\ path' = <<"raised", "none">>
  /\ pc' = "fetch_B"
  /\ UNCHANGED <<items, groups, shop_date_str, shop_date, seenA, seenB, itemSrc, groupSrc,
                 payload, out_file, env, fb, tw, arg, ret>>

\* if items: return items, groups, shop_date_str
ReturnA ==
  /\ pc = "loop_A"
  /\ Len(items) > 0
  /\ pc' = "fetched"
  /\ path' = <<"returned", "none">>
  /\ UNCHANGED <<items, groups, shop_date_str, shop_date, seenA, seenB, itemSrc, groupSrc,
                 payload, out_file, env, fb, tw, arg, ret>>

\* else: 0 items, go on to the fallback
EmptyA ==
  /\ pc = "loop_A"
  /\ Len(items) = 0
  /\ path' = <<"empty", "none">>
  /\ pc' = "fetch_B"
  /\ UNCHANGED <<items, groups, shop_date_str, shop_date, seenA, seenB, itemSrc, groupSrc,
                 payload, out_file, env, fb, tw, arg, ret>>

\* r.status_code != 200
FallbackStatus ==
  /\ pc = "fetch_B"
  /\ ReturnEmpty("status")
  /\ UNCHANGED <<shop_date, seenA, seenB, payload, out_file, env, fb, tw, arg, ret>>

\* requests.exceptions.Timeout
FallbackTimeout ==
  /\ pc = "fetch_B"
  /\ ReturnEmpty("timeout")
  /\ UNCHANGED <<shop_date, seenA, seenB, payload, out_file, env, fb, tw, arg, ret>>

\* any other exception of the request or of r.json()
FallbackError ==
  /\ pc = "fetch_B"
  /\ ReturnEmpty("error")
  /\ UNCHANGED <<shop_date, seenA, seenB, payload, out_file, env, fb, tw, arg, ret>>

\* status 200 and a JSON body
FetchShopB ==
  /\ pc = "fetch_B"
  /\ \E d \in ShopDatesB : shop_date_str' = d
  /\ pc' = "loop_B"
  /\ UNCHANGED <<items, groups, shop_date, seenA, seenB, itemSrc, groupSrc, path, payload,
                 out_file, env, fb, tw, arg, ret>>

LoopEntryB ==
  /\ pc = "loop_B"
  /\ Len(seenB) < MaxEntries
  /\ \E i \in 1..Len(EntriesB) :
       /\ Len(seenB) > 0 => KeyIndex(EntriesB[seenB[Len(seenB)]][1]) <= KeyIndex(EntriesB[i][1])
       /\ Accumulate("B", BodiesB[i])
       /\ seenB' = Append(seenB, i)
  /\ UNCHANGED <<pc, shop_date_str, shop_date, seenA, path, payload, out_file, env, fb, tw,
                 arg, ret>>

\* an exception raised by an entry of the raw body
RaiseInB ==
  /\ pc = "loop_B"
  /\ ReturnEmpty("error")
  /\ UNCHANGED <<shop_date, seenA, seenB, payload, out_file, env, fb, tw, arg, ret>>

\* return items, groups, shop_date_str
ReturnB ==
  /\ pc = "loop_B"
  /\ pc' = "fetched"
  /\ path' = <<path[1], "returned">>
  /\ UNCHANGED <<items, groups, shop_date_str, shop_date, seenA, seenB, itemSrc, groupSrc,
                 payload, out_file, env, fb, tw, arg, ret>>

(***************************************************************************)
(* Module level: export, shop.json, optional posting                       *)
(***************************************************************************)
export_item(it) ==
  [id |-> it.id, name |-> it.name, image |-> it.img_url, rarity |-> it.rarity,
   price |-> it.price, expires |-> it.expires,
   type |-> IF it.type # "" THEN it.type ELSE infer_type_by_name(it.name),
   section |-> it.section, group |-> it.group, groupId |-> it.groupId,
   groupPrice |-> it.groupPrice, series |-> it.series]

export_items == [i \in 1..Len(items) |-> export_item(items[i])]

export_group(g) ==
  [id |-> g.id, name |-> g.name, price |-> g.price, expires |-> g.expires,
   items |-> [i \in 1..Len(g.items) |->
               [id |-> g.items[i].id, name |-> g.items[i].name, image |-> g.items[i].image,
                rarity |-> g.items[i].rarity, type |-> g.items[i].type,
                price |-> g.items[i].price]]]

export_groups == [i \in 1..Len(groups) |-> export_group(groups[i])]

\* "count": len(export_items)
payload_count(exported) == Len(exported)

\* "ok": bool(export_groups)
payload_ok_FromGroups(exported) == Len(groups) > 0

\* "ok": bool(export_items)
payload_ok(exported) == Len(exported) > 0

\* the payload dict without its updatedAt timestamp
build_payload ==
  [sourceDate |-> shop_date_str,
   count      |-> payload_count(export_items),
   ok         |-> payload_ok(export_items),
   items      |-> export_items,
   groups     |-> export_groups]

\* out_path.write_text(json.dumps(payload, ...)): the file holds the payload's JSON text,
\* kept here as the document it encodes
WriteShopJson ==
  /\ pc = "fetched"
  /\ payload' = <<"payload", build_payload>>
  /\ out_file' = <<"json", payload'[2]>>
  /\ pc' = "written"
  /\ UNCHANGED <<items, groups, shop_date_str, shop_date, seenA, seenB, itemSrc, groupSrc,
                 path, env, fb, tw, arg, ret>>

PostingFrame ==
  UNCHANGED <<items, groups, shop_date_str, shop_date, seenA, seenB, itemSrc, groupSrc,
              path, payload, out_file, env, arg, ret>>

\* the elif / else branches of the Facebook block
FacebookSkipped ==
  /\ pc = "written"
  /\ ~(Len(items) > 0 /\ env.fb)
  /\ fb' = IF Len(items) = 0 THEN "skipped_no_items" ELSE "skipped_no_credentials"
  /\ pc' = "fb_done"
  /\ UNCHANGED tw
  /\ PostingFrame

FacebookPosted ==
  /\ pc = "written"
  /\ Len(items) > 0 /\ env.fb
  /\ fb' = "posted"
  /\ pc' = "fb_done"
  /\ UNCHANGED tw
  /\ PostingFrame

\* except Exception as e: print(...)
FacebookFailed ==
  /\ pc = "written"
  /\ Len(items) > 0 /\ env.fb
  /\ fb' = "failed"
  /\ pc' = "fb_done"
  /\ UNCHANGED tw
  /\ PostingFrame

TwitterSkipped ==
  /\ pc = "fb_done"
  /\ ~(Len(items) > 0 /\ env.tw)
  /\ tw' = IF Len(items) = 0 THEN "skipped_no_items" ELSE "skipped_no_credentials"
  /\ pc' = "tw_done"
  /\ UNCHANGED fb
  /\ PostingFrame

TwitterPosted ==
  /\ pc = "fb_done"
  /\ Len(items) > 0 /\ env.tw
  /\ tw' = "posted"
  /\ pc' = "tw_done"
  /\ UNCHANGED fb
  /\ PostingFrame

\* except tweepy.Forbidden
TwitterForbidden ==
  /\ pc = "fb_done"
  /\ Len(items) > 0 /\ env.tw
  /\ tw' = "forbidden"
  /\ pc' = "tw_done"
  /\ UNCHANGED fb
  /\ PostingFrame

\* except tweepy.TweepyException
TwitterTweepyError ==
  /\ pc = "fb_done"
  /\ Len(items) > 0 /\ env.tw
  /\ tw' = "tweepy_error"
  /\ pc' = "tw_done"
  /\ UNCHANGED fb
  /\ PostingFrame

\* an exception that is neither tweepy.Forbidden nor tweepy.TweepyException (a
\* requests.exceptions.ConnectionError of the HTTP session, a KeyError of r.data["id"]):
\* no except clause of the Twitter block matches and the script ends with a traceback
TwitterOtherError ==
  /\ pc = "fb_done"
  /\ Len(items) > 0 /\ env.tw
  /\ tw' = "uncaught"
  /\ pc' = "crashed"
  /\ UNCHANGED fb
  /\ PostingFrame

\* print("Fin del script.")
Finish ==
  /\ pc = "tw_done"
  /\ pc' = "end"
  /\ UNCHANGED <<fb, tw>>
  /\ PostingFrame

Next ==
  \/ FetchShopA
  \/ ClientRaises
  \/ LoopEntryA
  \/ RaiseInA
  \/ ReturnA
  \/ EmptyA
  \/ FallbackStatus
  \/ FallbackTimeout
  \/ FallbackError
  \/ FetchShopB
  \/ LoopEntryB
  \/ RaiseInB
  \/ ReturnB
  \/ WriteShopJson
  \/ FacebookSkipped
  \/ FacebookPosted
  \/ FacebookFailed
  \/ TwitterSkipped
  \/ TwitterPosted
  \/ TwitterForbidden
  \/ TwitterTweepyError
  \/ TwitterOtherError
  \/ Finish

Spec == Init /\ [][Next]_vars

(***************************************************************************)
(* normalize_rarity on its own                                             *)
(***************************************************************************)
Capitalize(s) == IF s = "" THEN "" ELSE UpperChar(Char(s, 1)) \o Tail(s)

RarityTokens == {RARITIES[i] : i \in 1..Len(RARITIES)}

RarityWords == RarityTokens \cup {"exotic", "gaminglegends", ""}

RarityPrefixes == {"", "EFortRarity::", "CosmeticRarity."}

RarityTexts ==
  {p \o w : p \in RarityPrefixes,
            w \in UNION {{v, UpperStr(v), Capitalize(v)} : v \in RarityWords}}

RarityInputs ==
  {None, I(0)}
    \cup {S(t) : t \in RarityTexts}
    \cup {Enum(w, "CosmeticRarity." \o UpperStr(w)) : w \in RarityWords \ {""}}
    \cup {Dict(<< <<"value", S(w)>>, <<"displayValue", S(Capitalize(w))>> >>) : w \in RarityWords}

\* everything but pc, arg and ret at rest
Idle ==
  /\ items = <<>>
  /\ groups = <<>>
  /\ shop_date_str = None
  /\ shop_date = None
  /\ seenA = <<>>
  /\ seenB = <<>>
  /\ itemSrc = <<>>
  /\ groupSrc = <<>>
  /\ path = <<"none", "none">>
  /\ payload = None
  /\ out_file = None
  /\ env = [fb |-> FALSE, tw |-> FALSE]
  /\ fb = "pending"
  /\ tw = "pending"

IdleFrame ==
  UNCHANGED <<items, groups, shop_date_str, shop_date, seenA, seenB, itemSrc, groupSrc,
              path, payload, out_file, env, fb, tw, arg>>

InitRarity ==
  /\ pc = "call"
  /\ arg \in RarityInputs
  /\ ret = None
  /\ Idle

CallNormalizeRarity ==
  /\ pc = "call"
  /\ ret' = S(normalize_rarity(arg))
  /\ pc' = "returned"
  /\ IdleFrame

NextRarity == CallNormalizeRarity

SpecRarity == InitRarity /\ [][NextRarity]_vars

(***************************************************************************)
(* Type inference on its own: a raw cosmetic whose display name is a few   *)
(* words and whose explicit type may be missing or unknown                 *)
(***************************************************************************)
\* most words in one display name
MaxWords == 2

RECURSIVE Listed(_)
\* the elements of a set, one after the other
Listed(set) ==
  IF set = {} THEN <<>>
  ELSE LET x == CHOOSE y \in set : TRUE IN <<x>> \o Listed(set \ {x})

\* every keyword, words that hold no keyword, and keywords as display names spell them
NameWords ==
  Listed(UNION {TYPE_KEYWORDS[g][2] : g \in 1..Len(TYPE_KEYWORDS)}
           \cup {"Wild", "Card", "Dance", "Pickaxe", "PET", "Glider"})

\* a display name is a few words, each given by its position in NameWords
DisplayNames == UNION {[1..n -> 1..Len(NameWords)] : n \in 0..MaxWords}

Spelled(words) == [w \in 1..Len(words) |-> NameWords[words[w]]]

ExplicitTypes == {None, S("pickaxe"), S("mystery")}

NamedCosmetic(words, t) ==
  Dict(<< <<"name", S(Join(" ", Spelled(words)))>>, <<"type", Dict(<< <<"value", t>> >>)>> >>)

InitInfer ==
  /\ pc = "call"
  /\ arg \in [words : DisplayNames, type : ExplicitTypes]
  /\ ret = None
  /\ Idle

\* typ = api_type or infer_type_by_name(name), as the loop of source B computes it
AssignType ==
  /\ pc = "call"
  /\ LET itm  == NamedCosmetic(arg.words, arg.type)
         name == Or(DictGet(itm, "name"), S("Sin nombre"))
     IN ret' = Or(api_type_B(itm), S(infer_type_by_name(name)))
  /\ pc' = "returned"
  /\ IdleFrame

NextInfer == AssignType

SpecInfer == InitInfer /\ [][NextInfer]_vars

(***************************************************************************)
(* chunk_lines_into_tweets on its own                                      *)
(***************************************************************************)
\* whitespace, as s.strip() and s.rstrip() take it
WS == " \t\n\r"

RECURSIVE chunk_loop(_, _, _, _)
\* the for loop over lines and the trailing flush of current
chunk_loop(lines, current, tweets, max_chars) ==
  IF Len(lines) = 0
  THEN IF StripWs(current) # "" THEN Append(tweets, RStrip(current, WS)) ELSE tweets
  ELSE LET add == lines[1] \o "\n"
       IN IF Len(current) + Len(add) > max_chars
          THEN chunk_loop(Tail(lines), add, Append(tweets, RStrip(current, WS)), max_chars)
          ELSE chunk_loop(Tail(lines), current \o add, tweets, max_chars)

chunk_lines_into_tweets(header, lines, footer, max_chars) ==
  LET base1 == RStrip(header, WS) \o "\n\n" \o RStrip(footer, WS)
      cut   == IF Len(base1) <= max_chars THEN base1 ELSE SubSeq(base1, 1, max_chars)
  IN chunk_loop(lines, "", <<cut>>, max_chars)

\* most lines in one call
MaxLines == 2

LineTexts == {"", "a", "abc", "abcd", "abcdef", "ab  "}

LineLists == UNION {[1..n -> LineTexts] : n \in 0..MaxLines}

InitChunk ==
  /\ pc = "call"
  /\ arg \in [header : {"H", "Head \n"}, lines : LineLists, footer : {"F", "Foot "},
              max_chars : {4, 5}]
  /\ ret = None
  /\ Idle

CallChunkLines ==
  /\ pc = "call"
  /\ ret' = chunk_lines_into_tweets(arg.header, arg.lines, arg.footer, arg.max_chars)
  /\ pc' = "returned"
  /\ IdleFrame

NextChunk == CallChunkLines

SpecChunk == InitChunk /\ [][NextChunk]_vars

(***************************************************************************)
(* Group assignment on its own: two entries of the raw response that share *)
(* offer id, price and expiry and differ in their cosmetics lists          *)
(***************************************************************************)
\* most cosmetics in one entry
MaxCosmetics == 2

CosmeticPool == {B_WILD, B_PICK, B_NOID}

CosmeticLists == UNION {[1..n -> CosmeticPool] : n \in 0..MaxCosmetics}

EntryOf(offer, price, expiry, cosmetics) ==
  Dict(<< <<"offerId", offer>>, <<"regularPrice", price>>, <<"offerExpires", expiry>>,
          <<"items", List(cosmetics)>> >>)

InitGroupId ==
  /\ pc = "call"
  /\ \E offer \in {None, S("o1")}, price \in {None, I(1200)},
        expiry \in {None, S("2026-05-01T00:00:00Z")}, c1 \in CosmeticLists, c2 \in CosmeticLists :
       arg = <<EntryOf(offer, price, expiry, c1), EntryOf(offer, price, expiry, c2)>>
  /\ ret = None
  /\ Idle

\* group_id of each of the two entries, as the loop of source B computes it
AssignGroupIds ==
  /\ pc = "call"
  /\ ret' = <<group_id(extract_B("daily", arg[1])), group_id(extract_B("daily", arg[2]))>>
  /\ pc' = "returned"
  /\ IdleFrame

NextGroupId == AssignGroupIds

SpecGroupId == InitGroupId /\ [][NextGroupId]_vars

(***************************************************************************)
(* Properties                                                              *)
(***************************************************************************)
FailedB == {"status", "timeout", "error"}

Written == payload[1] = "payload"

HttpUrl(u) == StartsWith(u, "http://") \/ StartsWith(u, "https://")

Range(seq) == {seq[i] : i \in 1..Len(seq)}

\* C1: fetch_shop_items always returns: the run is never ended by the fetch stage, and
\* when the raw call raises, times out or answers non-200 the result is exactly
\* ([], {}, None), whatever source A left behind, so the payload written from it has
\* items [], groups [], count 0 and ok false.
C1_FetchDegradesToEmpty ==
  /\ pc = "crashed" => tw = "uncaught"
  /\ pc \in {"fetched", "written", "fb_done", "tw_done", "end"} => path # <<"none", "none">>
  /\ path[2] \in FailedB =>
       /\ items = <<>> /\ groups = <<>> /\ shop_date_str = None
       /\ Written =>
            /\ payload[2].items = <<>> /\ payload[2].groups = <<>>
            /\ payload[2].count = 0 /\ payload[2].ok = FALSE

\* source A had built a group, gave up with no item, the raw call answered non-200, and
\* the empty payload has been written
C1_Witness ==
  /\ pc = "written"
  /\ path = <<"empty", "status">>
  /\ Len(seenA) > 0
  /\ out_file[1] = "json" /\ out_file[2].ok = FALSE

\* C2: each canonical rarity token, in any letter case and with or without a namespace
\* prefix, is returned by normalize_rarity as itself.
C2_CanonicalTokenMapsToItself ==
  pc = "returned" =>
    \A k \in RarityTokens, p \in RarityPrefixes :
      (arg[1] = "str" /\ LowerStr(arg[2]) = LowerStr(p) \o k) => ret = S(k)

\* C3: normalize_rarity returns one of the six canonical tokens for every input, and
\* "common" when the input is None or empty.
C3_RarityAlwaysCanonical ==
  pc = "returned" =>
    /\ ret[2] \in RarityTokens
    /\ (IsNone(arg) \/ arg = S("")) => ret = S("common")

\* per catalogue entry, the number of its cosmetics whose icon cleans to a URL
PassingA ==
  [i \in 1..Len(EntriesA) |->
     Len(SelectSeq(cosmetics_A(EntriesA[i]), LAMBDA c : ~IsNone(clean_url(icon_A(c)))))]

PassingB ==
  [i \in 1..Len(EntriesB) |->
     Len(SelectSeq(cosmetics_B(EntriesB[i][2]), LAMBDA c : ~IsNone(clean_url(icon_B(c)))))]

RECURSIVE Total(_, _)
\* sum of count[i] over the positions i in seen
Total(count, seen) == IF Len(seen) = 0 THEN 0 ELSE count[seen[1]] + Total(count, Tail(seen))

RECURSIVE Members(_)
\* number of nested item records over all groups
Members(grps) == IF Len(grps) = 0 THEN 0 ELSE Len(grps[1].items) + Members(Tail(grps))

\* C4: every flat item and every group member carries an image URL that starts with
\* http:// or https://, and exactly the cosmetics whose icon cleans to a URL are in the
\* flat list and in the groups: one whose icon cleans to null is in neither.
C4_OnlyHttpImagesSurvive ==
  /\ \A i \in 1..Len(items) : HttpUrl(items[i].img_url)
  /\ \A g \in 1..Len(groups) : \A i \in 1..Len(groups[g].items) : HttpUrl(groups[g].items[i].image)
  /\ Written => \A i \in 1..Len(payload[2].items) : HttpUrl(payload[2].items[i].image)
  /\ path[2] \notin FailedB =>
       /\ Len(items) = Total(PassingA, seenA) + Total(PassingB, seenB)
       /\ Members(groups) = Total(PassingA, seenA) + Total(PassingB, seenB)

\* source A returned after an entry with a scheme-relative icon and an entry holding a
\* cosmetic with an ftp icon: the first is promoted to https, the second is absent
C4_Witness ==
  /\ pc = "fetched"
  /\ path = <<"returned", "none">>
  /\ seenA = <<1, 2>>
  /\ Len(items) = 3
  /\ items[2].img_url = "https://cdn.example.com/b.png"
  /\ items[3].img_url = "http://cdn.example.com/d.png"

\* the loop body of the entry a step has just iterated
StepBody ==
  IF seenA' # seenA THEN BodiesA[shop_date][seenA'[Len(seenA')]]
  ELSE BodiesB[seenB'[Len(seenB')]]

\* the entry's own name, price and expiry, read off the upstream record
StepHeader ==
  IF seenA' # seenA
  THEN LET e == EntriesA[seenA'[Len(seenA')]]
       IN <<group_name_A(e), entry_price_A(e), expire_txt_A(e, shop_date)>>
  ELSE LET e == EntriesB[seenB'[Len(seenB')]][2]
       IN <<group_name_B(e), entry_price_B(e), expire_txt_B(e)>>

C5_UniqueIds ==
  \A i, j \in 1..Len(groups) : groups[i].id = groups[j].id => i = j

C5_EntryStep ==
  (seenA' # seenA \/ seenB' # seenB) =>
    LET b  == StepBody
        at == {k \in 1..Len(groups) : groups[k].id = b.group_id}
    IN IF at = {}
       THEN /\ Len(groups') = Len(groups) + 1
            /\ SubSeq(groups', 1, Len(groups)) = groups
            /\ groups'[Len(groups')].id = b.group_id
            /\ <<groups'[Len(groups')].name, groups'[Len(groups')].price,
                 groups'[Len(groups')].expires>> = StepHeader
            /\ groups'[Len(groups')].items = b.group_items
       ELSE /\ Len(groups') = Len(groups)
            /\ \A k \in 1..Len(groups) :
                 /\ groups'[k].id = groups[k].id
                 /\ groups'[k].name = groups[k].name
                 /\ groups'[k].price = groups[k].price
                 /\ groups'[k].expires = groups[k].expires
                 /\ groups'[k].items = IF k \in at THEN groups[k].items \o b.group_items
                                       ELSE groups[k].items

\* C5: no two group records share an id; the first entry that maps to an id creates the
\* group with that entry's name, price and expiry, and a later entry with the same id
\* only appends its surviving items, in order, to that group.
C5_OneGroupPerId == []C5_UniqueIds /\ [][C5_EntryStep]_vars

\* two entries of source A with offer id o1: one group, named and priced by the first,
\* holding the two items of the first followed by the item of the second
C5_Witness ==
  /\ seenA = <<1, 2>>
  /\ Len(groups) = 1
  /\ Len(groups[1].items) = 3
  /\ groups[1].name = S("Pack") /\ groups[1].price = I(1500)
  /\ groups[1].items[3].name = S("Glider X")

IdsOf(recs) == {recs[i].id : i \in 1..Len(recs)}

GroupedIds(grps) == UNION {IdsOf(grps[g].items) : g \in 1..Len(grps)}

Consistent(flat, grps) ==
  /\ GroupedIds(grps) = IdsOf(flat)
  /\ \A i \in 1..Len(flat) :
       \E g \in 1..Len(grps) : grps[g].id = flat[i].groupId /\ flat[i].id \in IdsOf(grps[g].items)

\* C6: the item ids found across all groups are exactly the item ids of the flat list,
\* and every flat item's groupId names a group that holds an item with its id; in the
\* accumulators at every point and in the written payload.
C6_ProjectionsAgree ==
  /\ Consistent(items, groups)
  /\ Written => Consistent(payload[2].items, payload[2].groups)

\* source A raised after one entry, the raw call succeeded, and three items in two groups
\* have been written
C6_Witness ==
  /\ pc = "written"
  /\ path = <<"raised", "returned">>
  /\ seenA = <<1>> /\ seenB = <<2, 3>>
  /\ Len(payload[2].items) = 3
  /\ Len(payload[2].groups) = 2

\* C7: a failure of either posting step is caught: the run is not ended by it, the
\* Twitter step still follows a Facebook failure, and shop.json stays as written.
C7_PostingFailuresAreCaught ==
  /\ pc # "crashed"
  /\ pc \in {"fb_done", "tw_done", "end"} => out_file = <<"json", payload[2]>>
  /\ (fb = "failed" /\ pc \in {"tw_done", "end"}) => tw # "pending"

RECURSIVE Count(_, _)
Count(x, seq) == IF Len(seq) = 0 THEN 0 ELSE (IF seq[1] = x THEN 1 ELSE 0) + Count(x, Tail(seq))

\* the upstream identifiers of an entry's cosmetics, in listed order
UpstreamIds(entry) ==
  LET c == cosmetics_B(entry) IN [i \in 1..Len(c) |-> item_id_B(c[i])]

SameIdSet(e1, e2) == Range(UpstreamIds(e1)) = Range(UpstreamIds(e2))

SameIdBag(e1, e2) ==
  /\ SameIdSet(e1, e2)
  /\ \A x \in Range(UpstreamIds(e1)) : Count(x, UpstreamIds(e1)) = Count(x, UpstreamIds(e2))

\* C8 as stated: without an offer id, two entries with the same set of item identifiers,
\* price and expiry get the same groupId.
C8_SameSetSameGroupId ==
  (pc = "returned" /\ ~Truthy(offer_id_B(arg[1])) /\ SameIdSet(arg[1], arg[2]))
    => ret[1] = ret[2]

\* C8 amended: without an offer id, two entries whose cosmetics lists hold the same
\* identifiers the same number of times, in any order, with the same price and expiry
\* get the same groupId; with an offer id the groupId is that offer id.
C8_SameBagSameGroupId ==
  pc = "returned" =>
    /\ (~Truthy(offer_id_B(arg[1])) /\ SameIdBag(arg[1], arg[2])) => ret[1] = ret[2]
    /\ Truthy(offer_id_B(arg[1])) => (ret[1] = offer_id_B(arg[1]) /\ ret[2] = offer_id_B(arg[2]))

\* two entries without offer id listing the same two cosmetics in opposite orders
C8_Witness ==
  /\ pc = "returned"
  /\ ~Truthy(offer_id_B(arg[1]))
  /\ cosmetics_B(arg[1]) = <<B_WILD, B_PICK>>
  /\ cosmetics_B(arg[2]) = <<B_PICK, B_WILD>>
  /\ ret[1] = ret[2]

\* C9: in the payload, count is the number of records in items and ok is true exactly
\* when count is greater than zero.
C9_CountAndOk ==
  Written =>
    /\ payload[2].count = Len(payload[2].items)
    /\ payload[2].ok <=> payload[2].count > 0

\* a payload with no item but with the group of an entry whose only cosmetic was dropped
C9_Witness ==
  /\ Written
  /\ payload[2].count = 0
  /\ payload[2].ok = FALSE
  /\ Len(payload[2].groups) > 0

\* C10: the raw call is attempted only after source A raised or ended with no item, and
\* a result returned by the source B path holds nothing that source A's loop stored.
C10_ResultFromOneSource ==
  /\ pc \in {"fetch_B", "loop_B"} => path[1] \in {"raised", "empty"}
  /\ (pc = "fetched" /\ path[2] = "returned") =>
       /\ \A i \in 1..Len(itemSrc) : itemSrc[i] = "B"
       /\ \A g \in 1..Len(groupSrc) : groupSrc[g] = "B"

\* C11: every record of the flat list carries the price of the entry it was sold in,
\* the same value as its groupPrice, whichever source stored it.
C11_FlatPriceIsEntryPrice ==
  \A i \in 1..Len(items) : items[i].price = items[i].groupPrice

Min(set) == CHOOSE i \in set : \A j \in set : i <= j

\* the explicit types of the catalogue that map_api_type does not recognize
Unrecognized == {t \in ExplicitTypes : IsNone(map_api_type(t))}

\* for every word, the keyword groups it spells, by position in the fixed order
WordGroups ==
  [w \in 1..Len(NameWords) |->
     {g \in 1..Len(TYPE_KEYWORDS) : LowerStr(NameWords[w]) \in TYPE_KEYWORDS[g][2]}]

\* the keyword groups a display name was spelled from
GroupsOf(words) == UNION {WordGroups[words[w]] : w \in 1..Len(words)}

\* C12: a cosmetic without a recognized explicit type gets the token of the earliest
\* keyword group, in the order companion, music, emote, pickaxe, glider, wrap,
\* backbling, that its display name matches, and the outfit token when it matches none.
C12_EarliestKeywordGroupWins ==
  (pc = "returned" /\ arg.type \in Unrecognized) =>
    LET matched == GroupsOf(arg.words)
    IN ret = IF matched = {} THEN S("traje") ELSE S(TYPE_KEYWORDS[Min(matched)][1])

\* "Dance Pickaxe" with an unknown explicit type is classified as an emote
C12_Witness ==
  /\ pc = "returned"
  /\ Spelled(arg.words) = <<"Dance", "Pickaxe">>
  /\ arg.type = S("mystery")
  /\ arg.type \in Unrecognized
  /\ GroupsOf(arg.words) = {3, 4}
  /\ ret = S("gesto")

\* C13: every chunk returned by chunk_lines_into_tweets is at most max_chars long.
C13_ChunksWithinBudget ==
  pc = "returned" => \A i \in 1..Len(ret) : Len(ret[i]) <= arg.max_chars

====
